---- MODULE Spec2Model ----
(***************************************************************************)
(* Model of the web3-resolver crate: the domain model (models.rs), the     *)
(* IPFS link helper (resolver/ipfs.rs), the Everscale naming-system        *)
(* backend (resolver/evername.rs), the Unstoppable Domains backend         *)
(* (resolver/ud.rs), the builder (resolver/builder.rs) and the caching     *)
(* orchestrator Web3DomainResolver (resolver.rs).                          *)
(*                                                                         *)
(* Strings are sequences of one-character strings, so that ends_with,      *)
(* trim_start_matches, str::get and format! are computed, not assumed.     *)
(***************************************************************************)
EXTENDS Integers, Sequences, FiniteSets, TLC

VARIABLES
    ipfs_in, ipfs_out,      \* make_ipfs_link: argument, returned String
    disp_in, disp_out,      \* Display for ResolvedDomainData: value, rendered text
    e_chain,                \* EvernameResolver: what the chain answers (input)
    e_pc,                   \* EvernameResolver::resolve: position of the call
    e_records,              \* ... its `records` local, once get_records returned
    e_tag,                  \* ... the tag selected by the priority loop
    e_trace,                \* ... the contract calls made so far, in order
    e_result,               \* ... the returned Result, once it returned
    b_cfg,                  \* DomainResolverBuilder: its four fields
    b_log,                  \* ... the setter calls made on it, in order
    b_out,                  \* ... the registrar's answer to build(), and its return
    ud_pc,                  \* UnstoppableDomainsResolver: position of its caller
    ud_tlds,                \* ... its `tlds` field
    ud_resp,                \* ... the answer to the last suffix fetch
    ud_ret,                 \* ... what the last update_tlds returned
    ud_seen,                \* ... the last Vec returned by get_tlds
    r_tlds,                 \* Web3DomainResolver: ud_resolver.tlds
    r_ttl,                  \* ... dns_cache: None, or Some(time to live)
    cache,                  \* ... the entries of dns_cache: name -> value, time
    now,                    \* the clock the cache reads
    calls,                  \* the resolve calls: position, locals, result
    watched                 \* one call that stored its result, for reference

pureVars == <<ipfs_in, ipfs_out, disp_in, disp_out>>
everVars == <<e_chain, e_pc, e_records, e_tag, e_trace, e_result>>
builderVars == <<b_cfg, b_log, b_out>>
udVars == <<ud_pc, ud_tlds, ud_resp, ud_ret, ud_seen>>
resolverVars == <<r_tlds, r_ttl, cache, now, calls, watched>>
otherVars == <<pureVars, everVars, builderVars, udVars>>
vars == <<pureVars, everVars, builderVars, udVars, resolverVars>>

\* Option<T>: None is the empty set, Some(x) the singleton {x}.  An output
\* variable is None until the function has returned.
None == {}
Some(x) == {x}
Unwrap(o) == CHOOSE x \in o : TRUE

(***************************************************************************)
(* Bounds of the model.                                                    *)
(***************************************************************************)
\* Number of pieces an argument of make_ipfs_link is concatenated from.
MaxPieces == 3
\* Number of characters of an on-chain content string.
MaxContentLen == 11
\* Number of setter calls made on one builder.
MaxSetterCalls == 3
\* Number of resolve calls in flight at once on one Web3DomainResolver.
MaxCalls == 2
\* Last instant of the clock.
MaxTime == 2

(***************************************************************************)
(* str helpers.                                                            *)
(***************************************************************************)
\* str::starts_with
StartsWith(s, p) == Len(p) <= Len(s) /\ SubSeq(s, 1, Len(p)) = p

\* str::ends_with
EndsWith(s, p) == Len(p) <= Len(s) /\ SubSeq(s, Len(s) - Len(p) + 1, Len(s)) = p

\* str::trim_start_matches: the pattern is removed from the front repeatedly,
\* until the rest no longer starts with it.
RECURSIVE TrimStartMatches(_, _)
TrimStartMatches(s, p) ==
    IF p # <<>> /\ StartsWith(s, p)
    THEN TrimStartMatches(SubSeq(s, Len(p) + 1, Len(s)), p)
    ELSE s

\* The concatenation of a sequence of strings.
RECURSIVE Flatten(_)
Flatten(ps) == IF ps = <<>> THEN <<>> ELSE Head(ps) \o Flatten(Tail(ps))

\* All sequences over S of length 0..n.
SeqsUpTo(S, n) == UNION {[1..k -> S] : k \in 0..n}

(***************************************************************************)
(* resolver/ipfs.rs                                                        *)
(***************************************************************************)
IpfsScheme == <<"i", "p", "f", "s", ":", "/", "/">>          \* "ipfs://"
IpfsPath == <<"/", "i", "p", "f", "s", "/">>                 \* "/ipfs/"
HttpsScheme == <<"h", "t", "t", "p", "s", ":", "/", "/">>    \* "https://"
\* ".ipfs.w3s.link/"
GatewayTail ==
    <<".", "i", "p", "f", "s", ".", "w", "3", "s", ".", "l", "i", "n", "k", "/">>

\* format!("https://{}.ipfs.w3s.link/", id)
GatewayUrl(id) == HttpsScheme \o id \o GatewayTail

\* A variant that removes only the "ipfs://" scheme.
make_ipfs_link_scheme_only(content_hash_string) ==
    GatewayUrl(TrimStartMatches(content_hash_string, IpfsScheme))

make_ipfs_link(content_hash_string) ==
    LET content_hash_fixed ==
            TrimStartMatches(TrimStartMatches(content_hash_string, IpfsScheme),
                             IpfsPath)
    IN  GatewayUrl(content_hash_fixed)

(***************************************************************************)
(* models.rs: ResolvedDomainData and its Display                           *)
(***************************************************************************)
\* Characters of content strings: "a" is one UTF-8 byte long, "E" stands for
\* a two-byte scalar such as U+00E9.
ContentChars == {"a", "E"}
Utf8Len(ch) == IF ch = "E" THEN 2 ELSE 1

RECURSIVE ByteLen(_)
ByteLen(s) == IF s = <<>> THEN 0 ELSE Utf8Len(Head(s)) + ByteLen(Tail(s))

\* str::is_char_boundary
IsCharBoundary(s, n) == \E k \in 0..Len(s) : ByteLen(SubSeq(s, 1, k)) = n

\* str::get(0..hi): None unless hi is within the string and on a character
\* boundary; otherwise the characters that make up bytes 0..hi.
StrGetTo(s, hi) ==
    IF hi <= ByteLen(s) /\ IsCharBoundary(s, hi)
    THEN Some(SubSeq(s, 1, CHOOSE k \in 0..Len(s) : ByteLen(SubSeq(s, 1, k)) = hi))
    ELSE None

\* Option<&str>::unwrap_or_default
UnwrapOrDefault(o) == IF o = None THEN <<>> ELSE Unwrap(o)

\* The byte range end of `get(0..10)` in Display.
DisplayPrefixLen == 10

DomainString(s) == [shape |-> "DomainString", text |-> s, content_type |-> <<>>]
OnchainData(s) == [shape |-> "OnchainData", text |-> s, content_type |-> <<>>]
OnchainContractData(s, ct) ==
    [shape |-> "OnchainContractData", text |-> s, content_type |-> ct]

TxtDomainString == <<"D", "o", "m", "a", "i", "n", "S", "t", "r", "i", "n", "g", "(">>
TxtOnchainData == <<"O", "n", "c", "h", "a", "i", "n", "D", "a", "t", "a", "(">>
TxtOnchainContractData ==
    <<"O", "n", "c", "h", "a", "i", "n", "C", "o", "n", "t", "r", "a", "c", "t",
      "D", "a", "t", "a", "(">>
TxtEllipsis == <<".", ".", ".">>
\* "text/html; charset=utf-8", kept as one token: it is never taken apart.
DefaultContentType == <<"text/html; charset=utf-8">>

\* impl Display for ResolvedDomainData
DisplayData(d) ==
    CASE d.shape = "DomainString" ->
            TxtDomainString \o d.text \o <<")">>
      [] d.shape = "OnchainData" ->
            TxtOnchainData
                \o UnwrapOrDefault(StrGetTo(d.text, DisplayPrefixLen))
                \o TxtEllipsis \o <<")">>
      [] d.shape = "OnchainContractData" ->
            TxtOnchainContractData
                \o UnwrapOrDefault(StrGetTo(d.text, DisplayPrefixLen))
                \o TxtEllipsis \o <<",", " ">> \o d.content_type \o <<")">>

(***************************************************************************)
(* models.rs: AddressTag                                                   *)
(***************************************************************************)
TOR_ADDRESS_TAG == 1001
IPFS_ADDRESS_TAG == 1002
WEB2_ADDRESS_TAG == 1003
ONCHAIN_ADDRESS_TAG == 1004
ONCHAIN_CONTRACT_ADDRESS_TAG == 1005

AddressTag ==
    {"Tor", "Ipfs", "Web2", "Onchain", "OnchainContract", "NonWeb3",
     "UnstoppableDomain"}

\* AddressTag::tag
tag(t) ==
    CASE t = "Tor" -> TOR_ADDRESS_TAG
      [] t = "Ipfs" -> IPFS_ADDRESS_TAG
      [] t = "Web2" -> WEB2_ADDRESS_TAG
      [] t = "Onchain" -> ONCHAIN_ADDRESS_TAG
      [] t = "OnchainContract" -> ONCHAIN_CONTRACT_ADDRESS_TAG
      [] t = "NonWeb3" -> 0
      [] t = "UnstoppableDomain" -> 0

\* A priority list with Web2 ahead of Tor and Ipfs.
resolvable_web2_first == <<"Web2", "Tor", "Ipfs", "Onchain", "OnchainContract">>

\* AddressTag::resolvable: "Order is priority!"
resolvable == <<"Tor", "Ipfs", "Web2", "Onchain", "OnchainContract">>

\* impl TryFrom<u32> for AddressTag: Some(tag), or None for Err.
try_from(value) ==
    CASE value = TOR_ADDRESS_TAG -> Some("Tor")
      [] value = IPFS_ADDRESS_TAG -> Some("Ipfs")
      [] value = WEB2_ADDRESS_TAG -> Some("Web2")
      [] value = ONCHAIN_ADDRESS_TAG -> Some("Onchain")
      [] value = ONCHAIN_CONTRACT_ADDRESS_TAG -> Some("OnchainContract")
      [] OTHER -> None

(***************************************************************************)
(* resolver/evername.rs                                                    *)
(***************************************************************************)
\* Result<T>
Ok(v) == [ok |-> TRUE, val |-> v, err |-> ""]
Err(e) == [ok |-> FALSE, val |-> None, err |-> e]

\* A cell of the records map as the decode collaborator sees it: the shape it
\* unpacks to, and the text it carries.
StringCell(text) == [shape |-> "string", text |-> text]
AddressCell(text) == [shape |-> "address", text |-> text]
BadCell == [shape |-> "bad", text |-> <<>>]

\* fn string_cell_value
string_cell_value(cell) ==
    IF cell.shape = "string" THEN Ok(cell.text) ELSE Err("malformed cell data")

\* fn address_cell_value
address_cell_value(cell) ==
    IF cell.shape = "address" THEN Ok(cell.text) ELSE Err("malformed cell data")

\* EvernameResolver::address_contract: the root contract's `resolve`.
address_contract(chain) ==
    CASE chain.root = "certificate" -> Ok("certificate")
      [] chain.root = "no account" -> Err("No account state")
      [] chain.root = "no certificate" -> Err("no certificate value")

\* A get_records that gives up on the first key it does not recognize.
get_records_strict(chain) ==
    CASE chain.records_call = "no account" -> Err("No account state")
      [] chain.records_call = "not a map" -> Err("none value")
      [] chain.records_call = "map" ->
            IF \E key \in DOMAIN chain.content : try_from(key) = None
            THEN Err("Unknown address tag")
            ELSE LET tags == {Unwrap(try_from(key)) : key \in DOMAIN chain.content}
                 IN  Ok([t \in tags |-> chain.content[tag(t)]])

\* EvernameResolver::get_records: the records contract's `getRecords`, and
\* the HashMap<AddressTag, Cell> built from the returned map: entries whose
\* key try_from rejects are left out.
get_records(chain) ==
    CASE chain.records_call = "no account" -> Err("No account state")
      [] chain.records_call = "not a map" -> Err("none value")
      [] chain.records_call = "map" ->
            LET known == {key \in DOMAIN chain.content : try_from(key) # None}
                tags == {Unwrap(try_from(key)) : key \in known}
            IN  Ok([t \in tags |->
                      chain.content[CHOOSE key \in known : try_from(key) = Some(t)]])

\* EvernameResolver::load_content_from_contract: the site contract's
\* `getDetails`; the chunks are concatenated in map order and the content
\* type defaults to "text/html; charset=utf-8".
load_content_from_contract(chain) ==
    CASE chain.details.status = "no account" -> Err("No account state")
      [] chain.details.status = "wrong value" -> Err("wrong getDetails value")
      [] OTHER ->
            Ok(<<Flatten(chain.details.chunks),
                 IF chain.details.content_type = None
                 THEN DefaultContentType
                 ELSE Unwrap(chain.details.content_type)>>)

\* The `for tag in AddressTag::resolvable()` loop of resolve: the first tag of
\* the list that `records` holds, or None.
RECURSIVE first_present(_, _)
first_present(tags, records) ==
    IF tags = <<>> THEN None
    ELSE IF Head(tags) \in DOMAIN records THEN Some(Head(tags))
    ELSE first_present(Tail(tags), records)

\* A loop that passes over a record whose cell does not decode and settles
\* for the next tag that does.
RECURSIVE first_decodable(_, _)
first_decodable(tags, records) ==
    IF tags = <<>> THEN None
    ELSE IF /\ Head(tags) \in DOMAIN records
            /\ records[Head(tags)].shape =
                  (IF Head(tags) = "OnchainContract" THEN "address" ELSE "string")
    THEN Some(Head(tags))
    ELSE first_decodable(Tail(tags), records)

select_tag_skipping_malformed(records) ==
    IF first_decodable(resolvable, records) # None
    THEN first_decodable(resolvable, records)
    ELSE first_present(resolvable, records)

select_tag(records) == first_present(resolvable, records)

\* A match that wraps the Onchain record like the plain string records.
decode_record_onchain_as_string(t, cell) ==
    CASE t = "OnchainContract" -> address_cell_value(cell)
      [] t = "Ipfs" ->
            LET v == string_cell_value(cell)
            IN  IF v.ok THEN Ok(DomainString(make_ipfs_link(v.val))) ELSE v
      [] OTHER ->
            LET v == string_cell_value(cell)
            IN  IF v.ok THEN Ok(DomainString(v.val)) ELSE v

\* The match on the selected tag in resolve, up to the details call:
\* Ok(data) for the string tags, Ok(address) for OnchainContract.
decode_record(t, cell) ==
    CASE t = "Onchain" ->
            LET v == string_cell_value(cell)
            IN  IF v.ok THEN Ok(OnchainData(v.val)) ELSE v
      [] t = "OnchainContract" -> address_cell_value(cell)
      [] t = "Ipfs" ->
            LET v == string_cell_value(cell)
            IN  IF v.ok THEN Ok(DomainString(make_ipfs_link(v.val))) ELSE v
      [] OTHER ->
            LET v == string_cell_value(cell)
            IN  IF v.ok THEN Ok(DomainString(v.val)) ELSE v

NoAddress == Err("No address for requested domain")

\* What resolve returns once a record is selected and decoded, before any
\* details call: `dec` is decode_record's result for tag t.
\* Some(result) when the call returns here, None when getDetails is next.
after_decode(t, dec) ==
    IF ~dec.ok THEN Some(dec)
    ELSE IF t = "OnchainContract" THEN None
    ELSE Some(Ok([data |-> dec.val, tag |-> t]))

\* The end of resolve on the OnchainContract path.
after_details(det) ==
    IF det.ok
    THEN Ok([data |-> OnchainContractData(det.val[1], det.val[2]),
             tag |-> "OnchainContract"])
    ELSE det

\* impl Resolver for EvernameResolver: resolve, as one function of what the
\* chain answers.
EvernameResolve(chain) ==
    LET addr == address_contract(chain)
        recs == get_records(chain)
    IN  IF ~addr.ok THEN addr
        ELSE IF ~recs.ok THEN recs
        ELSE LET sel == select_tag(recs.val)
             IN  IF sel = None THEN NoAddress
                 ELSE LET t == Unwrap(sel)
                          ret == after_decode(t, decode_record(t, recs.val[t]))
                      IN  IF ret # None THEN Unwrap(ret)
                          ELSE after_details(load_content_from_contract(chain))

(***************************************************************************)
(* resolver/ud.rs                                                          *)
(***************************************************************************)
UD_BASE_URL == "https://api.unstoppabledomains.com"
EVERSCALE_RPC_ENDPOINT == "https://jrpc.everwallet.net/rpc"

\* IntoUrl::into_url succeeds.  "not a url" stands for every unparsable text.
ValidUrl(u) == u # "not a url"

\* The keys of the "meta" object of /resolve/supported_tlds.
MetaKeys == {<<"x">>, <<"e", "v", "e", "r">>}
\* The "namingService" of an entry; None when the field is missing.
NamingServices == {Some("UNS"), Some("DNS"), None}

\* What GET /resolve/supported_tlds can answer: a transport failure, a body
\* that is not JSON, or a JSON value whose "meta" maps keys to entries.
TldsResponse(status, meta) == [status |-> status, meta |-> meta]
TldsResponses ==
    {TldsResponse("transport error", <<>>), TldsResponse("not json", <<>>)}
        \cup {TldsResponse("json", meta) :
                 meta \in UNION {[ks -> NamingServices] : ks \in SUBSET MetaKeys}}

\* fn fetch_tlds: ".key" for every meta entry whose namingService is not
\* "DNS".  The Vec is held as a set: no code reads its order.
fetch_tlds(response) ==
    CASE response.status = "transport error" -> Err("error sending request")
      [] response.status = "not json" -> Err("expected value")
      [] OTHER ->
            Ok({<<".">> \o key :
                   key \in {k \in DOMAIN response.meta :
                               response.meta[k] # Some("DNS")}})

\* An update_tlds that forgets the list when the fetch fails.
update_tlds_clearing(tlds, response) ==
    LET fetched == fetch_tlds(response)
    IN  IF fetched.ok
        THEN [tlds |-> fetched.val, ret |-> Ok(<<>>)]
        ELSE [tlds |-> {}, ret |-> fetched]

\* UnstoppableDomainsResolver::update_tlds, from the answer to its fetch:
\* the `tlds` field afterwards and the returned Result<()>.
update_tlds(tlds, response) ==
    LET fetched == fetch_tlds(response)
    IN  IF fetched.ok
        THEN [tlds |-> fetched.val, ret |-> Ok(<<>>)]
        ELSE [tlds |-> tlds, ret |-> fetched]

\* A profile document answer of GET /profile/public/<domain>.
Profile(status, web2Url, ipfs) ==
    [status |-> status, web2Url |-> web2Url, ipfs |-> ipfs]

\* impl Resolver for UnstoppableDomainsResolver: resolve, as a function of
\* the answer: profile.web2Url first, then records."ipfs.html.value".
UdResolve(profile) ==
    CASE profile.status = "transport error" -> Err("error sending request")
      [] profile.status = "not json" -> Err("expected value")
      [] OTHER ->
            LET ipfs_url == IF profile.ipfs = None THEN None
                            ELSE Some(make_ipfs_link(Unwrap(profile.ipfs)))
                result == IF profile.web2Url # None THEN profile.web2Url ELSE ipfs_url
            IN  IF result = None
                THEN Err("Profile does not contain IPFS hash or Web2Url")
                ELSE Ok([data |-> DomainString(Unwrap(result)),
                         tag |-> "UnstoppableDomain"])

(***************************************************************************)
(* resolver/builder.rs                                                     *)
(***************************************************************************)
DefaultTtlSeconds == 300

\* impl Default for DomainResolverBuilder
BuilderDefault ==
    [eversacale_endpoint |-> EVERSCALE_RPC_ENDPOINT,
     unstoppable_domain_base_url |-> UD_BASE_URL,
     use_cache |-> TRUE,
     cache_ttl_seconds |-> Some(DefaultTtlSeconds)]

\* A use_cache that also puts the default TTL back.
use_cache_resetting_ttl(self, flag) ==
    [self EXCEPT !.use_cache = flag, !.cache_ttl_seconds = Some(DefaultTtlSeconds)]

no_cache(self) == [self EXCEPT !.use_cache = FALSE, !.cache_ttl_seconds = None]
with_eversacale_endpoint(self, endpoint) ==
    [self EXCEPT !.eversacale_endpoint = endpoint]
with_unstoppable_domain_base_url(self, base_url) ==
    [self EXCEPT !.unstoppable_domain_base_url = base_url]
use_cache(self, flag) == [self EXCEPT !.use_cache = flag]
cache_ttl_seconds(self, ttl) == [self EXCEPT !.cache_ttl_seconds = Some(ttl)]

ConfigError == Err("Cache is on, but TTL is not set or invalid")

\* A cache policy that falls back to the default TTL instead of failing.
dns_cache_of_defaulting(self) ==
    IF ~self.use_cache THEN Ok(None)
    ELSE IF self.cache_ttl_seconds # None /\ Unwrap(self.cache_ttl_seconds) > 0
    THEN Ok(self.cache_ttl_seconds)
    ELSE Ok(Some(DefaultTtlSeconds))

\* The `match (self.use_cache, self.cache_ttl_seconds)` of build:
\* Ok(Some(ttl)) for a cache, Ok(None) for no cache, or the error.
dns_cache_of(self) ==
    IF self.use_cache
    THEN IF self.cache_ttl_seconds # None /\ Unwrap(self.cache_ttl_seconds) > 0
         THEN Ok(self.cache_ttl_seconds)
         ELSE ConfigError
    ELSE Ok(None)

\* UnstoppableDomainsResolver::new
ud_new(base_url, response) ==
    IF ~ValidUrl(base_url) THEN Err("relative URL without a base")
    ELSE fetch_tlds(response)

\* EvernameResolver::new
ever_new(endpoint) ==
    IF ValidUrl(endpoint) THEN Ok(endpoint) ELSE Err("relative URL without a base")

\* DomainResolverBuilder::build; `response` is what the registrar answers to
\* the initial suffix fetch.  Ok carries the fields of Web3DomainResolver.
build(self, response) ==
    LET ud_resolver == ud_new(self.unstoppable_domain_base_url, response)
        evername_resolver == ever_new(self.eversacale_endpoint)
        dns_cache == dns_cache_of(self)
    IN  IF ~ud_resolver.ok THEN ud_resolver
        ELSE IF ~evername_resolver.ok THEN evername_resolver
        ELSE IF ~dns_cache.ok THEN dns_cache
        ELSE Ok([tlds |-> ud_resolver.val, ttl |-> dns_cache.val])

(***************************************************************************)
(* resolver.rs: Web3DomainResolver                                         *)
(***************************************************************************)
EverSuffix == <<".", "e", "v", "e", "r">>                    \* ".ever"

\* A dispatch that asks the registrar's suffix list first.
Dispatch_registrar_first(domain, tlds) ==
    IF \E tld \in tlds : EndsWith(domain, tld) THEN "ud"
    ELSE IF EndsWith(domain, EverSuffix) THEN "ever"
    ELSE "plain"

\* The if / else if / else of resolve: which branch a name takes.
Dispatch(domain, tlds) ==
    IF EndsWith(domain, EverSuffix) THEN "ever"
    ELSE IF \E tld \in tlds : EndsWith(domain, tld) THEN "ud"
    ELSE "plain"

\* The else branch of resolve.
PlainResult(domain) == Ok([data |-> DomainString(domain), tag |-> "NonWeb3"])

\* A test that lets OnchainContract results into the cache.
Cacheable_onchain_only(t) == t # "Onchain"

\* "do not cache onchain content"
Cacheable(t) == t # "Onchain" /\ t # "OnchainContract"

\* Cache::get under time_to_live(ttl): the entry's value while it is younger
\* than ttl, None afterwards and when there is no cache or no entry.
cache_get(entries, ttl, time, domain) ==
    IF ttl # None /\ domain \in DOMAIN entries
          /\ time < entries[domain].at + Unwrap(ttl)
    THEN Some(entries[domain].val)
    ELSE None

\* Cache::insert
cache_insert(entries, time, domain, value) ==
    [d \in DOMAIN entries \cup {domain} |->
        IF d = domain THEN [val |-> value, at |-> time] ELSE entries[d]]

\* An end of resolve that drops the name's entry when the backend failed.
cache_after_resolve_invalidating(entries, ttl, time, domain, res) ==
    IF ttl = None THEN entries
    ELSE IF res.ok
    THEN IF Cacheable(res.val.tag)
         THEN cache_insert(entries, time, domain, res.val)
         ELSE entries
    ELSE [d \in DOMAIN entries \ {domain} |-> entries[d]]

\* An end of resolve that never stores anything.
cache_after_resolve_never(entries, ttl, time, domain, res) == entries

\* The end of resolve, from the backend's Result `res`: `?` returns early on
\* an error; otherwise the second `if let Some(cache)` block runs.
cache_after_resolve(entries, ttl, time, domain, res) ==
    IF res.ok /\ ttl # None /\ Cacheable(res.val.tag)
    THEN cache_insert(entries, time, domain, res.val)
    ELSE entries

\* `.map_err(|e| anyhow!("Failed to resolve Unstoppable Domain: {}", e))`
WrapUdError(res) ==
    IF res.ok THEN res
    ELSE Err("Failed to resolve Unstoppable Domain: " \o res.err)

(***************************************************************************)
(* What the chain can answer (the inputs of the naming-system backend).    *)
(***************************************************************************)
\* Numeric keys of a records map that no AddressTag has.
UnknownKeys == {0, 1006}
RecordKeys ==
    {TOR_ADDRESS_TAG, IPFS_ADDRESS_TAG, WEB2_ADDRESS_TAG, ONCHAIN_ADDRESS_TAG,
     ONCHAIN_CONTRACT_ADDRESS_TAG} \cup UnknownKeys

\* The text stored under a key, one per key so that records are told apart.
CellText(key) ==
    CASE key = TOR_ADDRESS_TAG -> <<"t">>
      [] key = IPFS_ADDRESS_TAG -> IpfsScheme \o <<"b">>
      [] key = WEB2_ADDRESS_TAG -> <<"w">>
      [] key = ONCHAIN_ADDRESS_TAG -> <<"o", "n">>
      [] OTHER -> <<"x">>

CellChoices(key) ==
    IF key \in UnknownKeys
    THEN {"absent", "string"}
    ELSE {"absent", "string", "address", "bad"}

MakeCell(key, choice) ==
    CASE choice = "string" -> StringCell(CellText(key))
      [] choice = "address" -> AddressCell(<<"0", ":", "c">>)
      [] OTHER -> BadCell

\* Every records map over RecordKeys.
RecordMaps ==
    LET picks == {f \in [RecordKeys -> {"absent", "string", "address", "bad"}] :
                     \A key \in RecordKeys : f[key] \in CellChoices(key)}
    IN  {[key \in {k \in RecordKeys : f[k] # "absent"} |-> MakeCell(key, f[key])] :
            f \in picks}

NoDetails == [status |-> "no account", chunks |-> <<>>, content_type |-> None]
DetailsAnswers ==
    {NoDetails,
     [status |-> "wrong value", chunks |-> <<>>, content_type |-> None],
     [status |-> "ok", chunks |-> << <<"a">>, <<"E", "a">> >>, content_type |-> None],
     [status |-> "ok", chunks |-> << <<"a">> >>,
      content_type |-> Some(<<"text/plain">>)]}

ChainAnswer(root, records_call, content, details) ==
    [root |-> root, records_call |-> records_call, content |-> content,
     details |-> details]

\* The answers resolve can meet.  Parts a call never reads (the records of a
\* name the root does not know, ...) are fixed, not enumerated.
ChainStates ==
    {ChainAnswer(r, "map", <<>>, NoDetails) : r \in {"no account", "no certificate"}}
        \cup {ChainAnswer("certificate", rc, <<>>, NoDetails) :
                 rc \in {"no account", "not a map"}}
        \cup {ChainAnswer("certificate", "map", m, d) :
                 m \in RecordMaps, d \in DetailsAnswers}

(***************************************************************************)
(* Specification of make_ipfs_link applied to bounded arguments.           *)
(***************************************************************************)
\* The pieces arguments are built from: the two prefixes and identifier text.
IpfsPieces == {IpfsScheme, IpfsPath, <<"b">>, <<"/">>, <<"i">>}

IpfsInputs == {Flatten(ps) : ps \in SeqsUpTo(IpfsPieces, MaxPieces)}

IdlePure ==
    /\ ipfs_in = <<>> /\ ipfs_out = None
    /\ disp_in = None /\ disp_out = None

IdleBuilder == b_cfg = None /\ b_log = <<>> /\ b_out = None

IdleResolver ==
    /\ r_tlds = {} /\ r_ttl = None /\ cache = <<>> /\ now = 0 /\ calls = <<>>
    /\ watched = None

IdleUd ==
    /\ ud_pc = "idle" /\ ud_tlds = {} /\ ud_resp = None
    /\ ud_ret = None /\ ud_seen = None

IdleEver ==
    /\ e_chain = None /\ e_pc = "idle" /\ e_records = None
    /\ e_tag = None /\ e_trace = <<>> /\ e_result = None

InitIpfs ==
    /\ ipfs_in \in IpfsInputs
    /\ ipfs_out = None
    /\ disp_in = None /\ disp_out = None
    /\ IdleEver /\ IdleBuilder /\ IdleUd /\ IdleResolver

MakeIpfsLink ==
    /\ ipfs_out = None
    /\ ipfs_out' = Some(make_ipfs_link(ipfs_in))
    /\ UNCHANGED <<ipfs_in, disp_in, disp_out, everVars, builderVars, udVars, resolverVars>>

NextIpfs == MakeIpfsLink

SpecIpfs == InitIpfs /\ [][NextIpfs]_vars

(***************************************************************************)
(* Specification of Display applied to bounded values.                     *)
(***************************************************************************)
Contents == SeqsUpTo(ContentChars, MaxContentLen)

DisplayInputs ==
    {OnchainData(s) : s \in Contents}
        \cup {OnchainContractData(s, DefaultContentType) : s \in Contents}
        \cup {DomainString(s) : s \in SeqsUpTo(ContentChars, 1)}

InitDisplay ==
    /\ disp_in \in {Some(d) : d \in DisplayInputs}
    /\ disp_out = None
    /\ ipfs_in = <<>> /\ ipfs_out = None
    /\ IdleEver /\ IdleBuilder /\ IdleUd /\ IdleResolver

Render ==
    /\ disp_in # None /\ disp_out = None
    /\ disp_out' = Some(DisplayData(Unwrap(disp_in)))
    /\ UNCHANGED <<disp_in, ipfs_in, ipfs_out, everVars, builderVars, udVars, resolverVars>>

NextDisplay == Render

SpecDisplay == InitDisplay /\ [][NextDisplay]_vars

(***************************************************************************)
(* Specification of EvernameResolver::resolve, one call, stage by stage.   *)
(***************************************************************************)
InitEver ==
    /\ e_chain \in {Some(ch) : ch \in ChainStates}
    /\ e_pc = "start"
    /\ e_records = None /\ e_tag = None /\ e_trace = <<>> /\ e_result = None
    /\ IdlePure /\ IdleBuilder /\ IdleUd /\ IdleResolver

EverReturn(res) == e_pc' = "done" /\ e_result' = Some(res)

\* `self.address_contract(domain).await?`
EverAddressContract ==
    /\ e_pc = "start"
    /\ e_trace' = Append(e_trace, "resolve")
    /\ LET addr == address_contract(Unwrap(e_chain))
       IN  IF addr.ok
           THEN e_pc' = "records" /\ e_result' = e_result
           ELSE EverReturn(addr)
    /\ UNCHANGED <<e_chain, e_records, e_tag, pureVars, builderVars, udVars, resolverVars>>

\* `self.get_records(&resolved_address).await?`, the priority loop and the
\* decoding of the selected cell.
EverGetRecords ==
    /\ e_pc = "records"
    /\ e_trace' = Append(e_trace, "getRecords")
    /\ LET recs == get_records(Unwrap(e_chain))
       IN  IF ~recs.ok
           THEN EverReturn(recs) /\ UNCHANGED <<e_records, e_tag>>
           ELSE /\ e_records' = Some(recs.val)
                /\ LET sel == select_tag(recs.val)
                   IN  IF sel = None
                       THEN EverReturn(NoAddress) /\ e_tag' = e_tag
                       ELSE LET t == Unwrap(sel)
                                ret == after_decode(t, decode_record(t, recs.val[t]))
                            IN  /\ e_tag' = sel
                                /\ IF ret # None
                                   THEN EverReturn(Unwrap(ret))
                                   ELSE e_pc' = "details" /\ e_result' = e_result
    /\ UNCHANGED <<e_chain, pureVars, builderVars, udVars, resolverVars>>

\* `self.load_content_from_contract(&contract_address).await?`
EverLoadContent ==
    /\ e_pc = "details"
    /\ e_trace' = Append(e_trace, "getDetails")
    /\ EverReturn(after_details(load_content_from_contract(Unwrap(e_chain))))
    /\ UNCHANGED <<e_chain, e_records, e_tag, pureVars, builderVars, udVars, resolverVars>>

NextEver == EverAddressContract \/ EverGetRecords \/ EverLoadContent

SpecEver == InitEver /\ [][NextEver]_vars

(***************************************************************************)
(* Specification of DomainResolverBuilder: setters, then build.            *)
(***************************************************************************)
\* Arguments of the setters.
TtlArgs == {0, 1, 2}
UrlArgs == {"https://node.example/", "not a url"}

SetterCalls ==
    {<<"no_cache">>}
        \cup {<<"use_cache", f>> : f \in BOOLEAN}
        \cup {<<"cache_ttl_seconds", t>> : t \in TtlArgs}
        \cup {<<"with_eversacale_endpoint", u>> : u \in UrlArgs}
        \cup {<<"with_unstoppable_domain_base_url", u>> : u \in UrlArgs}

\* The builder after one setter call.
ApplySetter(self, call) ==
    CASE call[1] = "no_cache" -> no_cache(self)
      [] call[1] = "use_cache" -> use_cache(self, call[2])
      [] call[1] = "cache_ttl_seconds" -> cache_ttl_seconds(self, call[2])
      [] call[1] = "with_eversacale_endpoint" ->
            with_eversacale_endpoint(self, call[2])
      [] call[1] = "with_unstoppable_domain_base_url" ->
            with_unstoppable_domain_base_url(self, call[2])

\* Web3DomainResolver::builder()
InitBuilder ==
    /\ b_cfg = Some(BuilderDefault)
    /\ b_log = <<>>
    /\ b_out = None
    /\ IdlePure /\ IdleEver /\ IdleUd /\ IdleResolver

BuilderSet ==
    /\ b_out = None /\ Len(b_log) < MaxSetterCalls
    /\ \E call \in SetterCalls :
        /\ b_cfg' = Some(ApplySetter(Unwrap(b_cfg), call))
        /\ b_log' = Append(b_log, call)
    /\ UNCHANGED <<b_out, pureVars, everVars, udVars, resolverVars>>

BuilderBuild ==
    /\ b_out = None
    /\ \E response \in TldsResponses :
        b_out' = Some([answer |-> response, ret |-> build(Unwrap(b_cfg), response)])
    /\ UNCHANGED <<b_cfg, b_log, pureVars, everVars, udVars, resolverVars>>

NextBuilder == BuilderSet \/ BuilderBuild

SpecBuilder == InitBuilder /\ [][NextBuilder]_vars

(***************************************************************************)
(* Specification of UnstoppableDomainsResolver: new, get_tlds, update_tlds.*)
(***************************************************************************)
InitUd ==
    /\ ud_pc = "new" /\ ud_tlds = {} /\ ud_resp = None
    /\ ud_ret = None /\ ud_seen = None
    /\ IdlePure /\ IdleEver /\ IdleBuilder /\ IdleResolver

\* UnstoppableDomainsResolver::new: no resolver exists when the fetch fails.
UdNew ==
    /\ ud_pc = "new"
    /\ \E response \in TldsResponses :
        LET made == ud_new(UD_BASE_URL, response)
        IN  /\ ud_resp' = Some(response)
            /\ IF made.ok
               THEN ud_pc' = "ready" /\ ud_tlds' = made.val
               ELSE ud_pc' = "failed" /\ ud_tlds' = ud_tlds
    /\ UNCHANGED <<ud_ret, ud_seen, pureVars, everVars, builderVars, resolverVars>>

\* UnstoppableDomainsResolver::get_tlds.  It borrows the resolver shared, so
\* it cannot run while update_tlds holds it `&mut`.
UdGetTlds ==
    /\ ud_pc = "ready"
    /\ ud_seen' = Some(ud_tlds)
    /\ UNCHANGED <<ud_pc, ud_tlds, ud_resp, ud_ret, pureVars, everVars, builderVars, resolverVars>>

\* update_tlds up to the await of its fetch.
UdUpdateSend ==
    /\ ud_pc = "ready"
    /\ ud_pc' = "updating"
    /\ UNCHANGED <<ud_tlds, ud_resp, ud_ret, ud_seen, pureVars, everVars, builderVars, resolverVars>>

\* update_tlds from the answer of its fetch to its return.
UdUpdateReturn ==
    /\ ud_pc = "updating"
    /\ \E response \in TldsResponses :
        LET after == update_tlds(ud_tlds, response)
        IN  /\ ud_resp' = Some(response)
            /\ ud_tlds' = after.tlds
            /\ ud_ret' = Some(after.ret)
    /\ ud_pc' = "ready"
    /\ UNCHANGED <<ud_seen, pureVars, everVars, builderVars, resolverVars>>

NextUd == UdNew \/ UdGetTlds \/ UdUpdateSend \/ UdUpdateReturn

SpecUd == InitUd /\ [][NextUd]_vars

(***************************************************************************)
(* Specification of Web3DomainResolver: concurrent resolve calls on one    *)
(* built resolver, with the clock of its cache.                            *)
(***************************************************************************)
\* The names resolved: "a.ever" and "a.x".
Names == {<<"a">> \o EverSuffix, <<"a", ".", "x">>}

\* What the chain answers to the calls of this specification.
ResolverChains ==
    {ChainAnswer("no certificate", "map", <<>>, NoDetails)}
        \cup {ChainAnswer("certificate", "map", m,
                          [status |-> "ok", chunks |-> << <<"a">> >>,
                           content_type |-> None]) :
                 m \in {(WEB2_ADDRESS_TAG :> StringCell(CellText(WEB2_ADDRESS_TAG))),
                        (TOR_ADDRESS_TAG :> StringCell(CellText(TOR_ADDRESS_TAG)))
                            @@ (WEB2_ADDRESS_TAG :> StringCell(CellText(WEB2_ADDRESS_TAG)))
                            @@ (1006 :> StringCell(<<"x">>)),
                        (IPFS_ADDRESS_TAG :> StringCell(CellText(IPFS_ADDRESS_TAG))),
                        (ONCHAIN_ADDRESS_TAG :> StringCell(CellText(ONCHAIN_ADDRESS_TAG))),
                        (ONCHAIN_CONTRACT_ADDRESS_TAG :> AddressCell(<<"0", ":", "c">>))}}

\* What the registrar answers to the profile requests of this specification.
ResolverProfiles ==
    {Profile("json", None, Some(IpfsPath \o <<"b">>)),
     Profile("json", None, None)}

\* The time-to-live values the resolvers of this specification were built with.
ResolverTtls == {2}

\* What the registrar answered to the initial suffix fetch of those resolvers:
\* no suffix at all, or ".x" and ".ever" (and a DNS suffix, left out).
ResolverTldsResponses ==
    {TldsResponse("json", <<>>),
     TldsResponse("json", [k \in MetaKeys |-> Some("UNS")])}

CallIds == 1..MaxCalls

IdleCall ==
    [pc |-> "idle", domain |-> <<>>, backend |-> "none", hit |-> FALSE,
     ret |-> None]

\* The positions of a call that has begun and not returned.
InFlight == {"ever", "ud", "plain"}

\* A resolver build() returned: the suffix list of some answer to the initial
\* fetch, and no cache or a cache with a positive time to live.
InitResolver ==
    /\ \E response \in ResolverTldsResponses,
          ttl \in {None} \cup {Some(t) : t \in ResolverTtls} :
        LET made == build(IF ttl = None THEN no_cache(BuilderDefault)
                          ELSE cache_ttl_seconds(BuilderDefault, Unwrap(ttl)),
                          response)
        IN  /\ made.ok
            /\ r_tlds = made.val.tlds
            /\ r_ttl = made.val.ttl
    /\ cache = <<>>
    /\ now = 0
    /\ calls = [c \in CallIds |-> IdleCall]
    /\ watched = None
    /\ IdlePure /\ IdleEver /\ IdleBuilder /\ IdleUd

\* resolve up to its first await: the cache lookup and the dispatch.  A call
\* takes the lowest slot that holds no call in flight.
ResolveStart(c, domain) ==
    /\ calls[c].pc \notin InFlight
    /\ \A b \in CallIds : b < c => calls[b].pc \in InFlight
    /\ LET found == cache_get(cache, r_ttl, now, domain)
           route == Dispatch(domain, r_tlds)
       IN  calls' = [calls EXCEPT ![c] =
                IF found # None
                THEN [pc |-> "done", domain |-> domain, backend |-> "none",
                      hit |-> TRUE, ret |-> Some(Ok(Unwrap(found)))]
                ELSE [pc |-> route, domain |-> domain,
                      backend |-> IF route = "plain" THEN "none" ELSE route,
                      hit |-> FALSE, ret |-> None]]
    /\ UNCHANGED <<r_tlds, r_ttl, cache, now, watched, otherVars>>

\* The first call taken under observation: one that stored its result, with
\* the time it did and whether another call of the name was in flight.
Watch(c, res) ==
    IF watched = None /\ res.ok /\ r_ttl # None /\ Cacheable(res.val.tag)
    THEN watched' \in
            {None,
             Some([domain |-> calls[c].domain, val |-> res.val, t_end |-> now,
                   raced |-> \E o \in CallIds \ {c} :
                                /\ calls[o].pc \in InFlight
                                /\ calls[o].domain = calls[c].domain])}
    ELSE watched' = watched

\* resolve from the Result `res` of its branch to its return.
ResolveReturn(c, res) ==
    /\ cache' = cache_after_resolve(cache, r_ttl, now, calls[c].domain, res)
    /\ calls' = [calls EXCEPT ![c].pc = "done", ![c].ret = Some(res)]
    /\ Watch(c, res)
    /\ UNCHANGED <<r_tlds, r_ttl, now, otherVars>>

\* `self.evername_resolver.resolve(&domain).await?` returns.
ResolveEver(c) ==
    /\ calls[c].pc = "ever"
    /\ \E chain \in ResolverChains : ResolveReturn(c, EvernameResolve(chain))

\* `self.ud_resolver.resolve(&domain).await.map_err(..)?` returns.
ResolveUd(c) ==
    /\ calls[c].pc = "ud"
    /\ \E profile \in ResolverProfiles :
        ResolveReturn(c, WrapUdError(UdResolve(profile)))

\* The else branch: the name itself, tagged NonWeb3.
ResolvePlain(c) ==
    /\ calls[c].pc = "plain"
    /\ ResolveReturn(c, PlainResult(calls[c].domain))

\* Time passes.  Entries older than the time to live are gone for every
\* reader from then on, so they are dropped here.
Tick ==
    /\ now < MaxTime
    /\ now' = now + 1
    /\ cache' = [d \in {e \in DOMAIN cache : now + 1 < cache[e].at + Unwrap(r_ttl)}
                    |-> cache[d]]
    /\ UNCHANGED <<r_tlds, r_ttl, calls, watched, otherVars>>

Next ==
    \/ \E c \in CallIds, domain \in Names : ResolveStart(c, domain)
    \/ \E c \in CallIds : ResolveEver(c)
    \/ \E c \in CallIds : ResolveUd(c)
    \/ \E c \in CallIds : ResolvePlain(c)
    \/ Tick

Spec == InitResolver /\ [][Next]_vars

(***************************************************************************)
(* Properties of Web3DomainResolver::resolve (checked under Spec).         *)
(***************************************************************************)
NameAEver == <<"a">> \o EverSuffix
NameAX == <<"a", ".", "x">>
OnchainContent == {"Onchain", "OnchainContract"}

\* C1: on a cache miss the backend is picked from the name alone: a name
\* ending in ".ever" goes to the naming-system backend even when it also ends
\* with a registrar suffix; another name ending with a suffix of the
\* registrar's list goes to the registrar backend; every other name comes
\* back verbatim as DomainString(name) tagged NonWeb3, without a backend call.
C1_SuffixDispatch ==
    \A c \in CallIds :
        (calls[c].pc # "idle" /\ ~calls[c].hit) =>
            LET d == calls[c].domain
                isEver == EndsWith(d, <<".", "e", "v", "e", "r">>)
                isUd == \E tld \in r_tlds : EndsWith(d, tld)
            IN  /\ isEver => (calls[c].backend = "ever" /\ calls[c].pc \in {"ever", "done"})
                /\ (~isEver /\ isUd)
                      => (calls[c].backend = "ud" /\ calls[c].pc \in {"ud", "done"})
                /\ (~isEver /\ ~isUd)
                      => /\ calls[c].backend = "none"
                         /\ calls[c].pc \in {"plain", "done"}
                         /\ calls[c].pc = "done" =>
                               calls[c].ret =
                                   Some(Ok([data |-> DomainString(d), tag |-> "NonWeb3"]))

\* "a.ever" was resolved by the naming-system backend although ".ever" is in
\* the registrar's list too.
C1_Witness ==
    \E c \in CallIds :
        /\ calls[c].pc = "done" /\ ~calls[c].hit
        /\ calls[c].domain = NameAEver
        /\ EverSuffix \in r_tlds
        /\ calls[c].backend = "ever"
        /\ Unwrap(calls[c].ret).ok

\* A call takes slot c in this step.
Begins(c) == calls[c].pc \notin InFlight /\ calls'[c] # calls[c]

\* The call beginning in slot c is for the watched name and inside the time
\* to live of the watched call's entry.
LaterInWindow(c) ==
    /\ Begins(c)
    /\ watched # None
    /\ calls'[c].domain = Unwrap(watched).domain
    /\ now < Unwrap(watched).t_end + Unwrap(r_ttl)

\* C2 as stated: once a resolve has succeeded with a cacheable result, every
\* later resolve of that name inside the TTL window returns that same pair
\* without a backend call.
C2_LaterResolveSamePair ==
    [][\A c \in CallIds :
          LaterInWindow(c) =>
              /\ calls'[c].pc = "done" /\ calls'[c].hit
              /\ calls'[c].backend = "none"
              /\ calls'[c].ret = Some(Ok(Unwrap(watched).val))
      ]_vars

\* C2 amended: every later resolve of that name inside the TTL window returns
\* without a backend call the pair the cache holds for the name, which is that
\* same pair provided no other resolve of the name was in flight when the
\* first one returned.
C2_LaterResolveHitsCache ==
    [][\A c \in CallIds :
          LaterInWindow(c) =>
              /\ calls'[c].pc = "done" /\ calls'[c].hit
              /\ calls'[c].backend = "none"
              /\ calls'[c].domain \in DOMAIN cache
              /\ calls'[c].ret = Some(Ok(cache[calls'[c].domain].val))
              /\ ~Unwrap(watched).raced
                    => calls'[c].ret = Some(Ok(Unwrap(watched).val))
      ]_vars

\* A registrar result was stored with no other call of the name in flight,
\* and at a later time a resolve of the name returned it from the cache.
C2_Witness ==
    /\ watched # None
    /\ ~Unwrap(watched).raced
    /\ Unwrap(watched).val.tag = "UnstoppableDomain"
    /\ now > Unwrap(watched).t_end
    /\ now < Unwrap(watched).t_end + Unwrap(r_ttl)
    /\ \E c \in CallIds :
        /\ calls[c].pc = "done" /\ calls[c].hit
        /\ calls[c].domain = Unwrap(watched).domain
        /\ calls[c].ret = Some(Ok(Unwrap(watched).val))
        /\ cache[calls[c].domain].at = Unwrap(watched).t_end

\* C3: the cache never holds an entry tagged Onchain or OnchainContract, and
\* every resolve that returned such a result made a backend call.
C3_NoOnchainInCache ==
    /\ \A d \in DOMAIN cache : cache[d].val.tag \notin OnchainContent
    /\ \A c \in CallIds :
        (/\ calls[c].pc = "done"
         /\ Unwrap(calls[c].ret).ok
         /\ Unwrap(calls[c].ret).val.tag \in OnchainContent)
            => (~calls[c].hit /\ calls[c].backend = "ever")

\* With the cache on, two resolves of "a.ever" returned Onchain and
\* OnchainContract results, each from the backend, and nothing was stored.
C3_Witness ==
    /\ r_ttl # None
    /\ \A c \in {1, 2} :
        /\ calls[c].pc = "done" /\ calls[c].domain = NameAEver
        /\ Unwrap(calls[c].ret).ok /\ calls[c].backend = "ever"
    /\ Unwrap(calls[1].ret).val.tag = "OnchainContract"
    /\ Unwrap(calls[2].ret).val.tag = "Onchain"
    /\ NameAEver \notin DOMAIN cache

\* The call in slot c returns an error in this step.
Fails(c) ==
    /\ calls[c].pc \in InFlight
    /\ calls'[c].pc = "done"
    /\ ~Unwrap(calls'[c].ret).ok

\* C4: a resolve that fails leaves the cache as it was, and leaves the other
\* calls, in flight or returned, as they were.
C4_FailureLeavesCache ==
    [][\A c \in CallIds :
          Fails(c) =>
              /\ cache' = cache
              /\ \A o \in CallIds \ {c} : calls'[o] = calls[o]
              /\ calls'[c].backend \in {"ever", "ud"}
      ]_vars

\* A resolve of a name has failed while the cache holds the entry another
\* resolve of that name stored.
C4_Witness ==
    \E c \in CallIds, o \in CallIds :
        /\ c # o
        /\ calls[c].pc = "done" /\ ~Unwrap(calls[c].ret).ok
        /\ calls[o].pc = "done" /\ Unwrap(calls[o].ret).ok /\ ~calls[o].hit
        /\ calls[o].domain = calls[c].domain
        /\ calls[c].domain \in DOMAIN cache
        /\ cache[calls[c].domain].val = Unwrap(calls[o].ret).val

\* The shape the tag of a result stands for.
ShapeOfTag(t) ==
    CASE t = "Onchain" -> "OnchainData"
      [] t = "OnchainContract" -> "OnchainContractData"
      [] t \in {"Tor", "Web2", "Ipfs", "NonWeb3", "UnstoppableDomain"} -> "DomainString"

\* The pair is one of the seven tags with the shape that tag stands for.
WellShaped(pair) ==
    /\ pair.tag \in AddressTag
    /\ pair.data.shape = ShapeOfTag(pair.tag)

\* C11: every (data, tag) pair resolve returned, from a backend, from the
\* plain-text branch or from the cache, and every pair the cache holds, has
\* the shape its tag fixes: DomainString for Tor, Web2, Ipfs, NonWeb3 and
\* UnstoppableDomain, OnchainData for Onchain, OnchainContractData for
\* OnchainContract.
C11_ShapeFollowsTag ==
    /\ \A c \in CallIds :
        (calls[c].pc = "done" /\ Unwrap(calls[c].ret).ok)
            => WellShaped(Unwrap(calls[c].ret).val)
    /\ \A d \in DOMAIN cache : WellShaped(cache[d].val)

\* One resolve returned an Ipfs record's gateway URL from the cache while
\* another returned OnchainContract content from the backend.
C11_Witness ==
    \E c, o \in CallIds :
        /\ calls[c].pc = "done" /\ calls[c].hit
        /\ Unwrap(calls[c].ret).val.tag = "Ipfs"
        /\ Unwrap(calls[c].ret).val.data.shape = "DomainString"
        /\ calls[o].pc = "done" /\ ~calls[o].hit /\ Unwrap(calls[o].ret).ok
        /\ Unwrap(calls[o].ret).val.tag = "OnchainContract"
        /\ Unwrap(calls[o].ret).val.data.shape = "OnchainContractData"

(***************************************************************************)
(* Properties of EvernameResolver::resolve (checked under SpecEver).       *)
(***************************************************************************)
\* The priority order the specification gives for the five on-chain tags.
PriorityOrder == <<"Tor", "Ipfs", "Web2", "Onchain", "OnchainContract">>
PriorityIndex(t) == CHOOSE i \in 1..Len(PriorityOrder) : PriorityOrder[i] = t
OnchainTags == {PriorityOrder[i] : i \in 1..Len(PriorityOrder)}

\* The tags whose wire identifier is a key of the map the contract returned.
TagsInMap(content) == {t \in OnchainTags : tag(t) \in DOMAIN content}

\* The records contract returned a map to this call.
EverGotMap ==
    /\ e_pc \in {"details", "done"}
    /\ Unwrap(e_chain).root = "certificate"
    /\ Unwrap(e_chain).records_call = "map"

\* C6: the tag of a returned result is the earliest tag of Tor, Ipfs, Web2,
\* Onchain, OnchainContract present in the records map, whatever else the map
\* holds; the priority loop never selects another one.
C6_EarliestTagWins ==
    LET present == TagsInMap(Unwrap(e_chain).content)
        Earliest(t) ==
            t \in present /\ \A u \in present : PriorityIndex(t) <= PriorityIndex(u)
    IN  /\ (e_pc = "done" /\ Unwrap(e_result).ok) => Earliest(Unwrap(e_result).val.tag)
        /\ (EverGotMap /\ present # {}) => (e_tag # None /\ Earliest(Unwrap(e_tag)))

\* A result tagged Ipfs was returned from a map that also holds Web2 and
\* OnchainContract records and an unrecognized key.
C6_Witness ==
    /\ e_pc = "done" /\ Unwrap(e_result).ok
    /\ Unwrap(e_result).val.tag = "Ipfs"
    /\ {"Ipfs", "Web2", "OnchainContract"} \subseteq TagsInMap(Unwrap(e_chain).content)
    /\ DOMAIN Unwrap(e_chain).content \cap UnknownKeys # {}

\* The map with its unrecognized keys taken out.
WithoutUnknown(chain) ==
    LET keep == {key \in DOMAIN chain.content : \E t \in OnchainTags : tag(t) = key}
    IN  [chain EXCEPT !.content = [key \in keep |-> chain.content[key]]]

\* C7: an unrecognized key is dropped silently: the call ends as it would
\* without that key, and it fails with "No address for requested domain"
\* exactly when the map holds no recognized tag.
C7_UnknownKeysDropped ==
    (EverGotMap /\ e_pc = "done") =>
        LET chain == Unwrap(e_chain)
        IN  /\ (Unwrap(e_result) = NoAddress) <=> (TagsInMap(chain.content) = {})
            /\ Unwrap(e_result) = EvernameResolve(WithoutUnknown(chain))
            /\ e_records # None
            /\ DOMAIN Unwrap(e_records) = TagsInMap(chain.content)

\* A call returned a result from a map holding an unrecognized key next to a
\* recognized one.
C7_Witness ==
    /\ EverGotMap /\ e_pc = "done"
    /\ Unwrap(e_result).ok
    /\ DOMAIN Unwrap(e_chain).content \cap UnknownKeys # {}
    /\ TagsInMap(Unwrap(e_chain).content) # {}

\* The tag of highest priority among those in the map the contract returned.
TopTag(content) ==
    CHOOSE t \in TagsInMap(content) :
        \A o \in TagsInMap(content) : PriorityIndex(t) <= PriorityIndex(o)

\* The cell under the tag decodes to what the tag needs: an address for
\* OnchainContract, a string for the others.
CellDecodes(t, cell) ==
    cell.shape = (IF t = "OnchainContract" THEN "address" ELSE "string")

\* The contract calls a resolve makes when the chain answers `chain`, in
\* order: it stops at the first stage that fails, and asks for the details
\* only for a decoded OnchainContract record of highest priority.
StagesFor(chain) ==
    IF chain.root # "certificate" THEN <<"resolve">>
    ELSE IF \/ chain.records_call # "map"
            \/ TagsInMap(chain.content) = {}
            \/ TopTag(chain.content) # "OnchainContract"
            \/ ~CellDecodes("OnchainContract",
                            chain.content[ONCHAIN_CONTRACT_ADDRESS_TAG])
    THEN <<"resolve", "getRecords">>
    ELSE <<"resolve", "getRecords", "getDetails">>

\* Every stage the chain is asked for answers well.
AllStagesSucceed(chain) ==
    /\ chain.root = "certificate"
    /\ chain.records_call = "map"
    /\ TagsInMap(chain.content) # {}
    /\ CellDecodes(TopTag(chain.content), chain.content[tag(TopTag(chain.content))])
    /\ TopTag(chain.content) = "OnchainContract" => chain.details.status = "ok"

\* C13: resolution is staged and all-or-nothing.  The root lookup is the
\* first call, the records lookup follows only a root lookup that returned an
\* address, and the details call follows only the selection of an
\* OnchainContract record; the first stage that fails, a malformed cell of the
\* highest-priority record included, is the last one, the call then returns
\* an error and no data, and a returned result is always for the
\* highest-priority record: a lower one is never used instead.
C13_StagedAllOrNothing ==
    LET chain == Unwrap(e_chain)
        stages == StagesFor(chain)
    IN  /\ Len(e_trace) <= Len(stages)
        /\ e_trace = SubSeq(stages, 1, Len(e_trace))
        /\ e_pc # "done" => e_result = None
        /\ e_pc = "done" =>
              /\ e_trace = stages
              /\ e_result # None
              /\ Unwrap(e_result).ok <=> AllStagesSucceed(chain)
              /\ ~Unwrap(e_result).ok =>
                    (Unwrap(e_result).val = None /\ Unwrap(e_result).err # "")
              /\ Unwrap(e_result).ok =>
                    Unwrap(e_result).val.tag = TopTag(chain.content)

\* The map held a malformed Tor cell and a well-formed Web2 record: the call
\* ended with the decode error after the records lookup, with no details call.
C13_Witness ==
    /\ e_pc = "done"
    /\ TOR_ADDRESS_TAG \in DOMAIN Unwrap(e_chain).content
    /\ Unwrap(e_chain).content[TOR_ADDRESS_TAG] = BadCell
    /\ WEB2_ADDRESS_TAG \in DOMAIN Unwrap(e_chain).content
    /\ Unwrap(e_chain).content[WEB2_ADDRESS_TAG].shape = "string"
    /\ e_trace = <<"resolve", "getRecords">>
    /\ e_tag = Some("Tor")
    /\ Unwrap(e_result) = Err("malformed cell data")

(***************************************************************************)
(* Properties of DomainResolverBuilder (checked under SpecBuilder).        *)
(***************************************************************************)
\* The names of the setters called so far.
SettersCalled == {b_log[i][1] : i \in 1..Len(b_log)}

\* C5 as stated: once use_cache(true) was called and no TTL was set (or the
\* TTL is 0), build() fails.
C5_NoTtlRejected ==
    (/\ b_out # None
     /\ Unwrap(b_cfg).use_cache
     /\ <<"use_cache", TRUE>> \in {b_log[i] : i \in 1..Len(b_log)}
     /\ \/ "cache_ttl_seconds" \notin SettersCalled
        \/ Unwrap(b_cfg).cache_ttl_seconds = Some(0))
        => ~Unwrap(b_out).ret.ok

\* C5 amended: build() fails whenever the cache is on and the TTL field is
\* None or Some(0), with the configuration error once both backends were
\* constructed; a builder whose TTL was never touched keeps the default
\* Some(300) and builds; a built resolver has no cache or a positive TTL.
C5_InvalidTtlRejected ==
    b_out # None =>
        LET cfg == Unwrap(b_cfg)
            out == Unwrap(b_out).ret
            invalid == cfg.use_cache /\ cfg.cache_ttl_seconds \in {None, Some(0)}
            backends ==
                /\ ValidUrl(cfg.unstoppable_domain_base_url)
                /\ ValidUrl(cfg.eversacale_endpoint)
                /\ Unwrap(b_out).answer.status = "json"
        IN  /\ invalid => ~out.ok
            /\ (invalid /\ backends) => out = ConfigError
            /\ (out = ConfigError) => (invalid /\ backends)
            /\ out.ok => (out.val.ttl = None \/ Unwrap(out.val.ttl) > 0)
            /\ (backends /\ cfg.use_cache /\ "cache_ttl_seconds" \notin SettersCalled
                    /\ "no_cache" \notin SettersCalled)
                  => out = Ok([tlds |-> out.val.tlds, ttl |-> Some(300)])

\* build() returned the configuration error for use_cache(true) after
\* no_cache(), with both backends reachable.
C5_Witness ==
    /\ b_out # None
    /\ Unwrap(b_out).ret = ConfigError
    /\ b_log = << <<"no_cache">>, <<"use_cache", TRUE>> >>

\* The configuration fields of the builder.
BuilderFields ==
    {"eversacale_endpoint", "unstoppable_domain_base_url", "use_cache",
     "cache_ttl_seconds"}

\* The setters that write one field, and the field each is named after.
FieldSetters ==
    {"use_cache", "cache_ttl_seconds", "with_eversacale_endpoint",
     "with_unstoppable_domain_base_url"}

FieldOf(setter) ==
    CASE setter = "with_eversacale_endpoint" -> "eversacale_endpoint"
      [] setter = "with_unstoppable_domain_base_url" -> "unstoppable_domain_base_url"
      [] setter = "cache_ttl_seconds" -> "cache_ttl_seconds"
      [] setter \in {"use_cache", "no_cache"} -> "use_cache"

\* The setter call made in this step.
SetterStep == b_log' # b_log
LastCall == b_log'[Len(b_log')]

\* The default builder after the calls of `log`, in order.
RECURSIVE ApplyAll(_, _)
ApplyAll(self, log) ==
    IF log = <<>> THEN self ELSE ApplyAll(ApplySetter(self, Head(log)), Tail(log))

\* The calls of b_log in every other order.
Reorderings ==
    {[i \in 1..Len(b_log) |-> b_log[p[i]]] : p \in Permutations(1..Len(b_log))}

\* No setter was called twice.
DifferentSetters == Cardinality(SettersCalled) = Len(b_log)

\* C12 as stated: every setter, no_cache included, changes only the field it
\* names, and calls of different setters give the same configuration in
\* every order.
C12_EverySetterOneField ==
    /\ [][SetterStep =>
            \A f \in BuilderFields \ {FieldOf(LastCall[1])} :
                Unwrap(b_cfg')[f] = Unwrap(b_cfg)[f]]_vars
    /\ [](DifferentSetters =>
            \A log \in Reorderings : ApplyAll(BuilderDefault, log) = Unwrap(b_cfg))

\* C12 amended: use_cache, cache_ttl_seconds, with_eversacale_endpoint and
\* with_unstoppable_domain_base_url each write their argument to the one field
\* they name and leave the other three alone; no_cache writes two fields,
\* use_cache to false and cache_ttl_seconds to None, and leaves the two URLs
\* alone.  Calls of different setters give the same configuration, and so
\* the same build() result, in every order unless no_cache is called
\* together with use_cache or cache_ttl_seconds.
C12_FieldSettersOneField ==
    /\ [][SetterStep =>
            LET before == Unwrap(b_cfg)
                after == Unwrap(b_cfg')
            IN  IF LastCall[1] = "no_cache"
                THEN after = [before EXCEPT !.use_cache = FALSE,
                                            !.cache_ttl_seconds = None]
                ELSE /\ \A f \in BuilderFields \ {FieldOf(LastCall[1])} :
                          after[f] = before[f]
                     /\ after[FieldOf(LastCall[1])] =
                            IF LastCall[1] = "cache_ttl_seconds"
                            THEN Some(LastCall[2]) ELSE LastCall[2]]_vars
    /\ []((/\ DifferentSetters
           /\ "no_cache" \in SettersCalled
                 => SettersCalled \cap {"use_cache", "cache_ttl_seconds"} = {})
            => \A log \in Reorderings :
                  /\ ApplyAll(BuilderDefault, log) = Unwrap(b_cfg)
                  /\ b_out # None =>
                        Unwrap(b_out).ret =
                            build(ApplyAll(BuilderDefault, log), Unwrap(b_out).answer))

\* Three different setters were called, the cache ones after the endpoint
\* one, and build() returned a resolver with the TTL and no trace of the order.
C12_Witness ==
    /\ b_log = << <<"with_eversacale_endpoint", "https://node.example/">>,
                  <<"cache_ttl_seconds", 2>>, <<"use_cache", TRUE>> >>
    /\ Unwrap(b_cfg) =
          ApplyAll(BuilderDefault,
                   << b_log[3], b_log[2], b_log[1] >>)
    /\ b_out # None
    /\ Unwrap(b_out).ret.ok
    /\ Unwrap(b_out).ret.val.ttl = Some(2)

(***************************************************************************)
(* Properties of the registrar suffix list (checked under SpecUd).         *)
(***************************************************************************)
\* The suffixes a JSON answer lists: "." and the key, for every entry whose
\* naming service is not "DNS".
ListedSuffixes(response) ==
    {<<".">> \o key : key \in {k \in DOMAIN response.meta :
                                  response.meta[k] # Some("DNS")}}

\* update_tlds returns in this step.
UdUpdateReturns == ud_pc = "updating" /\ ud_pc' = "ready"

\* C8: a failed update_tlds leaves the suffix list as it was; a successful
\* one replaces the whole list in one step, so that the list is at any time
\* the complete old list or the complete new one, and so is what get_tlds
\* returns.
C8_RefreshAllOrNothing ==
    [][/\ (UdUpdateReturns /\ ~Unwrap(ud_ret').ok) => ud_tlds' = ud_tlds
       /\ (UdUpdateReturns /\ Unwrap(ud_ret').ok)
             => (/\ Unwrap(ud_resp').status = "json"
                 /\ ud_tlds' = ListedSuffixes(Unwrap(ud_resp')))
       /\ (UdUpdateReturns /\ Unwrap(ud_resp').status # "json")
             => ~Unwrap(ud_ret').ok
       /\ (ud_pc = "ready" /\ ud_tlds' # ud_tlds) => UdUpdateReturns
       /\ (ud_seen' # ud_seen) => ud_seen' = Some(ud_tlds)
      ]_vars

\* An update_tlds has failed on a resolver whose list is not empty, and the
\* list has been read since.
C8_Witness ==
    /\ ud_pc = "ready"
    /\ ud_ret # None /\ ~Unwrap(ud_ret).ok
    /\ ud_tlds # {}
    /\ ud_seen = Some(ud_tlds)

(***************************************************************************)
(* Properties of make_ipfs_link (checked under SpecIpfs).                  *)
(***************************************************************************)
\* X begins with neither "ipfs://" nor "/ipfs/".
Unprefixed(x) == ~StartsWith(x, IpfsScheme) /\ ~StartsWith(x, IpfsPath)

\* C9 as stated: for every string X, "ipfs://X" and "/ipfs/X" both produce
\* "https://X.ipfs.w3s.link/" (one leading prefix is stripped).
C9_AnyIdentifier ==
    ipfs_out # None =>
        \A x \in IpfsInputs :
            ipfs_in \in {IpfsScheme \o x, IpfsPath \o x}
                => Unwrap(ipfs_out) = GatewayUrl(x)

\* C9 amended: for every X that does not itself begin with "ipfs://" or
\* "/ipfs/", the inputs "ipfs://X" and "/ipfs/X" both produce the identical
\* URL "https://X.ipfs.w3s.link/".
C9_UnprefixedIdentifier ==
    ipfs_out # None =>
        \A x \in IpfsInputs :
            (Unprefixed(x) /\ ipfs_in \in {IpfsScheme \o x, IpfsPath \o x})
                => Unwrap(ipfs_out) = GatewayUrl(x)

\* A "/ipfs/X" argument with a non-empty unprefixed X has been converted.
C9_Witness ==
    /\ ipfs_out # None
    /\ \E x \in IpfsInputs :
        x # <<>> /\ Unprefixed(x) /\ ipfs_in = IpfsPath \o x

(***************************************************************************)
(* Properties of Display (checked under SpecDisplay).                      *)
(***************************************************************************)
Min(a, b) == IF a < b THEN a ELSE b

\* t occurs in s as a contiguous substring.
Contains(s, t) ==
    \E i \in 1..(Len(s) + 1) :
        i + Len(t) - 1 <= Len(s) /\ SubSeq(s, i, i + Len(t) - 1) = t

\* C10: the rendering of OnchainData and of OnchainContractData contains the
\* prefix of the content of length min(10, length of the content).
C10_ShowsPrefix ==
    (disp_out # None /\ Unwrap(disp_in).shape # "DomainString") =>
        LET text == Unwrap(disp_in).text
        IN  Contains(Unwrap(disp_out),
                     SubSeq(text, 1, Min(DisplayPrefixLen, Len(text))))

====
